---- MODULE Spec2Model ----
(***************************************************************************)
(* Model of YCFounderScraper (yc_scraper.py): the crawl / extract / dedupe *)
(* / checkpoint pipeline, over several consecutive runs of the process     *)
(* that share one checkpoint file on disk.                                 *)
(***************************************************************************)
EXTENDS Integers, Sequences, FiniteSets, TLC

(* ---------------------------------------------------------------- bounds *)
\* number of consecutive process runs that are explored
MaxRuns == 2

\* number of distinct page extents a listing page can grow through
MaxExtent == 3

\* longest record list of a checkpoint file handed to load_checkpoint
MaxFileRecords == 2

(* ------------------------------------------------------ program constants *)
\* scrape_profile(self, page, profile_url, retries=2)
Retries == 2

\* get_founder_links: for _ in range(10)
ScrollCeiling == 10

(* --------------------------------------------------------------- fixtures *)
\* profile URLs of the catalogue
URLs == {"u1", "u2"}

\* batches requested from run(), in the order of the for loop
BatchSeq == <<"b1", "b2">>

\* anchors matching '/founders/' on each batch's listing page
\* (u2 is listed by both batches)
Listing == [b \in {"b1", "b2"} |-> IF b = "b1" THEN {"u1", "u2"} ELSE {"u2"}]

\* what page.evaluate returns on a profile page: null (no [data-page]
\* element) or the dict {name, linkedin, companyName, ...}
PageResult(f, n, l, c) ==
    [found |-> f, name |-> n, linkedin |-> l, companyName |-> c]

PageKinds ==
    { PageResult(FALSE, "", "", ""),
      PageResult(TRUE, "", "", ""),
      PageResult(TRUE, "", "h1", "Acme"),
      PageResult(TRUE, "Jane", "h1", ""),
      PageResult(TRUE, "Jane", "h1", "Acme"),
      PageResult(TRUE, "Jane", "h2", "Acme") }

\* the dict appended to all_data
DataOf(p) ==
    [name |-> p.name, linkedin |-> p.linkedin, companyName |-> p.companyName]

(* ---------------------------------------------------------------- helpers *)
Range(s) == {s[i] : i \in DOMAIN s}

\* every ordering of a set: list(set(...)) iterates in an unspecified order
Orderings(S) ==
    {s \in [1..Cardinality(S) -> S] : \A i, j \in 1..Cardinality(S) : s[i] = s[j] => i = j}

\* one list holding the elements of S (order immaterial to the consumer)
ListOf(S) == CHOOSE s \in Orderings(S) : TRUE

(* ------------------------------------------------------ the checkpoint file *)
\* scraper_progress.json: absent, a complete JSON document, or a document
\* cut short by a process that died after open(..., 'w') truncated it
AbsentFile == [st |-> "absent", data |-> <<>>, processed |-> {}]
PartialFile == [st |-> "partial", data |-> <<>>, processed |-> {}]
JsonFile(data, processed) == [st |-> "ok", data |-> data, processed |-> processed]
\* documents json.load accepts but that are no checkpoint: a top level that
\* is not an object (a list), and an object whose "processed_urls" cannot be
\* iterated (null, a number)
NotDictFile == [st |-> "notdict", data |-> <<>>, processed |-> {}]
BadProcessedFile(data) == [st |-> "badproc", data |-> data, processed |-> {}]

\* mutant: the processed URLs of the checkpoint are not restored
LoadMutantNoProcessed(file) ==
    IF file.st = "ok" THEN [data |-> file.data, processed |-> {}]
    ELSE [data |-> <<>>, processed |-> {}]

\* mutant: the records of the checkpoint are not restored
LoadMutantNoData(file) ==
    IF file.st = "ok" THEN [data |-> <<>>, processed |-> file.processed]
    ELSE [data |-> <<>>, processed |-> {}]

\* load_checkpoint on a fresh object (all_data = [], processed_urls = set());
\* json.load raises on a truncated file and checkpoint.get on a non-object,
\* and the except clause leaves both empty; self.all_data is assigned (line
\* 41) before the set comprehension over processed_urls can raise (line 43)
load_checkpoint(file) ==
    IF file.st = "ok" THEN [data |-> file.data, processed |-> file.processed]
    ELSE IF file.st = "badproc" THEN [data |-> file.data, processed |-> {}]
    ELSE [data |-> <<>>, processed |-> {}]

(* ------------------------------------------------- save_live: data cleaning *)
\* df = df[df['name'] != '']
FilterNamed(records) == SelectSeq(records, LAMBDA r : r.name # "")

\* the columns drop_duplicates compares: subset = ['name', 'companyName']
DedupSubset(r) == <<r.name, r.companyName>>

RECURSIVE drop_duplicates(_)
\* df.drop_duplicates(subset=subset, keep='first')
drop_duplicates(records) ==
    IF records = <<>> THEN <<>>
    ELSE LET n == Len(records)
             front == drop_duplicates(SubSeq(records, 1, n - 1))
         IN  IF \E i \in 1..(n - 1) : DedupSubset(records[i]) = DedupSubset(records[n])
             THEN front
             ELSE Append(front, records[n])

RECURSIVE DropDuplicatesKeepLast(_)
\* mutant: drop_duplicates(..., keep='last')
DropDuplicatesKeepLast(records) ==
    IF records = <<>> THEN <<>>
    ELSE LET rest == DropDuplicatesKeepLast(Tail(records))
         IN  IF \E i \in 2..Len(records) : DedupSubset(records[i]) = DedupSubset(records[1])
             THEN rest
             ELSE <<records[1]>> \o rest

CleanedMutantKeepLast(all) == DropDuplicatesKeepLast(FilterNamed(all))

\* cleaned_records = df.to_dict('records')
cleaned_records(all) == drop_duplicates(FilterNamed(all))

(* ------------------------------------------------------ save_live: the sinks *)
\* outcome of one sink in one commit:
\*   "off" not configured, "ok" delivered, "failed" raised, "skipped" never tried
NoSinks == [excel |-> "none", gs |-> "none", sp |-> "none"]

\* steps 2-4 of save_live. ex: "ok" | "perm" (PermissionError) | "err" (any
\* other error of the Excel writer); gs, sp: "ok" | "err"
SinkOutcome(ex, gs, sp, gsOn, spOn) ==
    LET excel == IF ex = "ok" THEN "ok" ELSE "failed"
        \* only PermissionError is caught around the Excel block
        afterExcel == ex # "err"
        gsheet == IF ~gsOn THEN "off"
                  ELSE IF ~afterExcel THEN "skipped"
                  ELSE IF gs = "ok" THEN "ok" ELSE "failed"
        \* gs_client.update is not wrapped: its error reaches the outer except
        afterGs == afterExcel /\ gsheet # "failed"
        share == IF ~spOn THEN "off"
                 ELSE IF ~afterGs THEN "skipped"
                 ELSE IF sp = "ok" THEN "ok" ELSE "failed"
    IN  [excel |-> excel, gs |-> gsheet, sp |-> share]

(* ------------------------------------------------------------ scrape_profile *)
\* if data['name'] or data['companyName']  (after "if not data: raise")
Accepted(page) == page.found /\ (page.name # "" \/ page.companyName # "")

\* mutant: one attempt too many
MayRetryMutantOffByOne(attempt) == attempt < Retries

\* if attempt < retries - 1: sleep and loop again
MayRetry(attempt) == attempt < Retries - 1

(* ----------------------------------------------------------------------- run *)
\* links_to_process = [link for link in list(set(all_links))
\*                     if link not in self.processed_urls]
LinksToProcess(links, processed) ==
    Orderings({l \in Range(links) : l \notin processed})

(* --------------------------------------------------------- get_founder_links *)
\* extent of a listing page after k scrolls, for k = 0..ScrollCeiling: it
\* never shrinks while lazy loading adds content
ExtentProfiles ==
    {e \in [0..ScrollCeiling -> 1..MaxExtent] :
        \A k \in 1..ScrollCeiling : e[k - 1] <= e[k]}

\* mutant: the loop ends one scroll early
KeepScrollingMutantOneLess(done) == done < ScrollCeiling - 1

\* for _ in range(10): the loop condition reads nothing but its counter
KeepScrolling(done) == done < ScrollCeiling

(* ------------------------------------------ one attempt, field by field *)
\* a profile page as the script of page.evaluate sees it: blob is "none" (no
\* [data-page] element), "nocompany" (props.company is missing) or "company";
\* founder is the name the founder list yields for the URL's slug, the other
\* blob fields are those of props.company, h1 is the text of the first h1
ProfilePage(b, f, h, c, cp, w) ==
    [blob |-> b, founder |-> f, h1 |-> h, companyName |-> c,
     companyPage |-> cp, website |-> w]

NoPage == ProfilePage("none", "", "", "", "", "")

ProfilePages ==
    {ProfilePage(b, "", h, "", "", "") : b \in {"none", "nocompany"}, h \in {"", "Jane H"}}
        \cup {ProfilePage("company", f, h, c, cp, w) :
                 f \in {"", "Jane"}, h \in {"", "Jane H"}, c \in {"", "Acme"},
                 cp \in {"", "/companies/acme"}, w \in {"", "acme.com"}}

\* the company page: the visit fails (timeout, script error), or its script
\* returns {name, website}
CompanyFails == [st |-> "fails", name |-> "", website |-> ""]
CompanyPages ==
    {CompanyFails}
        \cup {[st |-> "ok", name |-> n, website |-> w] :
                 n \in {"", "Acme Inc"}, w \in {"", "acme.io"}}

\* page.evaluate returned null
NoData == [found |-> FALSE, name |-> "", companyName |-> "", companyPage |-> "",
           website |-> ""]

\* the script of page.evaluate (lines 234-290): null without a [data-page]
\* element; else the blob's fields, the founder's name, and the h1 text
\* when the name is still empty
Evaluate(p) ==
    IF p.blob = "none" THEN NoData
    ELSE LET inertia == p.blob = "company"
             name == IF inertia THEN p.founder ELSE ""
         IN  [found |-> TRUE,
              name |-> IF name = "" THEN p.h1 ELSE name,
              companyName |-> IF inertia THEN p.companyName ELSE "",
              companyPage |-> IF inertia THEN p.companyPage ELSE "",
              website |-> IF inertia THEN p.website ELSE ""]

\* if data['companyPage'] and not data['website']
NeedsBackfill(data) == data.companyPage # "" /\ data.website = ""

\* mutant: an error on the company page leaves scrape_company_details
CompanyDetailsMutantRaises(company, company_url) ==
    [raised |-> company_url # "" /\ company.st = "fails",
     name |-> company.name, website |-> company.website]

\* scrape_company_details: (None, None) without a URL or after any error
\* (except Exception, lines 220-222), else (name, website) of the page;
\* None is written "", the caller tests the values for truth only
scrape_company_details(company, company_url) ==
    IF company_url = "" \/ company.st = "fails"
    THEN [raised |-> FALSE, name |-> "", website |-> ""]
    ELSE [raised |-> FALSE, name |-> company.name, website |-> company.website]

\* if c_name: data['companyName'] = c_name
\* if c_website: data['website'] = c_website
MergeBackfill(data, c) ==
    [data EXCEPT !.companyName = IF c.name # "" THEN c.name ELSE @,
                 !.website = IF c.website # "" THEN c.website ELSE @]

\* if data['name'] or data['companyName']
HasIdentity(data) == data.name # "" \/ data.companyName # ""

(* --------------------------------------------------------------------- state *)
VARIABLES
    pages,           \* URL -> what the profile page yields (unchanged fixture)
    cpFile,          \* scraper_progress.json on disk
    pc,              \* "idle" | "discover" | "extract" | "finally" | "exited"
    runNo,           \* number of runs started so far
    all_data,        \* self.all_data
    processed_urls,  \* self.processed_urls
    gs_client,       \* self.gs_client is not None
    sp_client,       \* self.sp_client is not None
    batchIdx,        \* position of run()'s loop over the batches
    all_links,       \* all_links of run()
    queue,           \* links_to_process not yet handed to scrape_profile
    attempt,         \* loop variable of scrape_profile for Head(queue)
    cause,           \* why the try block of run() was left
    sinkLog,         \* what the last save_live did to each sink
    \* history, kept for the properties
    loadSeen,        \* what load_checkpoint found at the start of this run
    diskAtStart,     \* processed_urls stored on disk when this run started
    loaded,          \* what load_checkpoint put in memory at the start of this run
    navigated,       \* URLs page.goto was called on in this run
    attempts,        \* URL -> extraction attempts in this run
    appended,        \* URL -> records appended to all_data in this run
    exhausted,       \* URLs given up on in this run
    succeededIn,     \* URL -> first run whose scrape_profile returned its record (0: none)
    finalSaved,      \* the save_checkpoint of run()'s finally completed
    exitKind,        \* "none" | "drained" | "interrupted" | "killed"
    stable,          \* no transient fault or interruption so far
    prevRunData,     \* all_data at the end of the previous run (while stable)
    batchLog,        \* the get_founder_links calls of this run, in order
    finallyLog,      \* what run()'s finally block did, in order
    \* one call of get_founder_links, scroll by scroll
    scrollPc,        \* "idle" | "goto" | "scrolling" | "collected" | "failed"
    extents,         \* the listing page's extent after each scroll (fixture)
    scrollsDone,     \* page.mouse.wheel calls made so far
    \* one attempt of scrape_profile on a loaded page, line by line
    exPc,            \* "idle" | "evaluate" | "backfill" | "decide" | "accepted"
                     \*   | "insufficient" | "nodata" | "error"
    exPage,          \* content of the profile page (fixture)
    exCompany,       \* what the company page does when visited (fixture)
    exData,          \* data of scrape_profile
    exProfile,       \* history: data as page.evaluate returned it
    exBackfill       \* history: "none" | "skipped" | "failed" | "returned"

progVars == <<pages, cpFile, pc, runNo, all_data, processed_urls, gs_client,
              sp_client, batchIdx, all_links, queue, attempt, cause, sinkLog>>
histVars == <<loadSeen, diskAtStart, loaded, navigated, attempts, appended, exhausted,
              succeededIn, finalSaved, exitKind, stable, prevRunData,
              batchLog, finallyLog>>
scrollVars == <<scrollPc, extents, scrollsDone>>
extractVars == <<exPc, exPage, exCompany, exData, exProfile, exBackfill>>
sideVars == <<scrollVars, extractVars>>
vars == <<progVars, histVars, scrollVars, extractVars>>

Zero == [u \in URLs |-> 0]

\* a fresh process object and empty history
InitMemory ==
    /\ pc = "idle"
    /\ runNo = 0
    /\ all_data = <<>>
    /\ processed_urls = {}
    /\ gs_client = FALSE
    /\ sp_client = FALSE
    /\ batchIdx = 1
    /\ all_links = <<>>
    /\ queue = <<>>
    /\ attempt = 0
    /\ cause = "drained"
    /\ sinkLog = NoSinks
    /\ loadSeen = "none"
    /\ diskAtStart = {}
    /\ loaded = [data |-> <<>>, processed |-> {}]
    /\ navigated = {}
    /\ attempts = Zero
    /\ appended = Zero
    /\ exhausted = {}
    /\ succeededIn = Zero
    /\ finalSaved = FALSE
    /\ exitKind = "none"
    /\ stable = TRUE
    /\ prevRunData = <<>>
    /\ batchLog = <<>>
    /\ finallyLog = <<>>

\* no call of get_founder_links is followed scroll by scroll
ScrollIdle ==
    /\ scrollPc = "idle"
    /\ extents = [k \in 0..ScrollCeiling |-> 1]
    /\ scrollsDone = 0

\* no attempt of scrape_profile is followed line by line
ExtractIdle ==
    /\ exPc = "idle"
    /\ exPage = NoPage
    /\ exCompany = CompanyFails
    /\ exData = NoData
    /\ exProfile = NoData
    /\ exBackfill = "none"

Init ==
    /\ pages \in [URLs -> PageKinds]
    /\ cpFile = AbsentFile
    /\ InitMemory
    /\ ScrollIdle
    /\ ExtractIdle

\* __init__ (load_checkpoint, _init_gsheets, _init_sharepoint) up to the
\* first await of run()
Start ==
    /\ UNCHANGED sideVars
    /\ pc \in {"idle", "exited"}
    /\ runNo < MaxRuns
    /\ LET cp == load_checkpoint(cpFile)
       IN  /\ all_data' = cp.data
           /\ processed_urls' = cp.processed
    /\ gs_client' \in BOOLEAN
    /\ sp_client' \in BOOLEAN
    /\ runNo' = runNo + 1
    /\ pc' = "discover"
    /\ batchIdx' = 1
    /\ all_links' = <<>>
    /\ queue' = <<>>
    /\ attempt' = 0
    /\ cause' = "drained"
    /\ sinkLog' = NoSinks
    /\ loadSeen' = IF cpFile.st \in {"absent", "ok"} THEN cpFile.st ELSE "corrupt"
    /\ diskAtStart' = cpFile.processed
    /\ loaded' = load_checkpoint(cpFile)
    /\ navigated' = {}
    /\ attempts' = Zero
    /\ appended' = Zero
    /\ exhausted' = {}
    /\ finalSaved' = FALSE
    /\ exitKind' = "none"
    /\ prevRunData' = IF stable THEN all_data ELSE <<>>
    /\ batchLog' = <<>>
    /\ finallyLog' = <<>>
    /\ UNCHANGED <<pages, cpFile, succeededIn, stable>>

\* mutant: the links of the batch replace those found so far
ExtendLinksMutantAssigns(all, links) == links

\* all_links.extend(links)
ExtendLinks(all, links) == all \o links

\* "for batch in batches": is there a batch after the one at position idx?
MoreBatches(idx) == idx < Len(BatchSeq)

\* one iteration of "for batch in batches": get_founder_links returns the
\* listing's profile links, or [] after any error; after the last batch the
\* queue is computed
DiscoverBatch ==
    /\ UNCHANGED sideVars
    /\ pc = "discover"
    /\ \E ok \in BOOLEAN :
        LET links == IF ok THEN ListOf(Listing[BatchSeq[batchIdx]]) ELSE <<>>
            all == ExtendLinks(all_links, links)
        IN  /\ all_links' = all
            /\ batchLog' = Append(batchLog, [batch |-> BatchSeq[batchIdx], ok |-> ok])
            /\ stable' = (stable /\ ok)
            /\ IF MoreBatches(batchIdx)
               THEN /\ batchIdx' = batchIdx + 1
                    /\ UNCHANGED <<queue, pc>>
               ELSE /\ UNCHANGED batchIdx
                    /\ \E q \in LinksToProcess(all, processed_urls) :
                        /\ queue' = q
                        /\ pc' = IF q = <<>> THEN "finally" ELSE "extract"
    /\ UNCHANGED <<pages, cpFile, runNo, all_data, processed_urls, gs_client,
                   sp_client, attempt, cause, sinkLog>>
    /\ UNCHANGED <<loadSeen, diskAtStart, loaded, navigated, attempts, appended,
                   exhausted, succeededIn, finalSaved, exitKind, prevRunData,
                   finallyLog>>

\* the document save_live writes to checkpoint_file
save_live(all, processed) == JsonFile(cleaned_records(all), processed)

\* the document save_checkpoint writes to checkpoint_file
save_checkpoint(all, processed) == JsonFile(all, processed)

\* what save_live records when its checkpoint write raises: the outer
\* except is reached before any sink is tried
SinksSkipped(gsOn, spOn) ==
    [excel |-> "skipped",
     gs |-> IF gsOn THEN "skipped" ELSE "off",
     sp |-> IF spOn THEN "skipped" ELSE "off"]

\* mutant: an error of the checkpoint write or of a sink leaves save_live
CommitRaisesMutantEscapes(wr, ex, gs) == wr = "ioerr" \/ ex = "err" \/ gs = "err"

\* does save_live raise to scrape_profile? its whole body is inside
\* try / except Exception (lines 93-150), whatever the write or a sink did
CommitRaises(wr, ex, gs) == FALSE

\* mutant: the URL is not recorded as processed
MarkProcessedMutantForgets(processed, url) == processed

\* self.processed_urls.add(profile_url)
MarkProcessed(processed, url) == processed \cup {url}

\* mutant: the URL is recorded as processed whatever the attempt gave
ProcessedAfterAttemptMutantAlways(ok, processed, url) == MarkProcessed(processed, url)

\* processed_urls after one attempt: the add of line 303 is reached only on
\* the accepting branch of line 301; a raise on the way leaves the set alone
ProcessedAfterAttempt(ok, processed, url) ==
    IF ok THEN MarkProcessed(processed, url) ELSE processed

\* mutant: the loop over links_to_process ends after the current URL
NextInQueueMutantStops(q) == <<>>

\* "for url in links_to_process" moves on when scrape_profile returns
NextInQueue(q) == Tail(q)

\* one pass of scrape_profile's attempt loop on the head of the queue (the
\* whole call when the URL is already processed), with the politeness sleep
\* that follows the call.
\*   nav: page.goto succeeds or times out
\*   wr : the checkpoint write of save_live completes ("done"), raises
\*        ("ioerr", the file is left as it was), or the process dies after
\*        open(..., 'w') truncated the file and before json.dump ended
\*   ex, gs, sp: what each sink does in this commit
ScrapeProfile ==
    /\ UNCHANGED sideVars
    /\ pc = "extract"
    /\ queue # <<>>
    /\ LET url == Head(queue)
           rest == NextInQueue(queue)
           after == IF rest = <<>> THEN "finally" ELSE "extract"
       IN
       IF attempt = 0 /\ url \in processed_urls
       THEN /\ queue' = rest
            /\ pc' = after
            /\ attempt' = 0
            /\ sinkLog' = NoSinks
            /\ UNCHANGED <<cpFile, all_data, processed_urls>>
            /\ UNCHANGED <<navigated, attempts, appended, exhausted,
                           succeededIn, exitKind, stable>>
       ELSE
       \E nav \in {"ok", "timeout"}, wr \in {"done", "ioerr", "killed"},
          ex \in {"ok", "perm", "err"}, gs \in {"ok", "err"}, sp \in {"ok", "err"} :
         LET \* the attempt produced a record that passes line 301
             ok == nav = "ok" /\ Accepted(pages[url])
             \* the process died inside save_live's checkpoint write
             died == ok /\ wr = "killed"
             \* an exception reached the except clause of the attempt loop
             raised == ~ok \/ CommitRaises(wr, ex, gs)
         IN
         /\ navigated' = navigated \cup {url}
         /\ attempts' = [attempts EXCEPT ![url] = @ + 1]
         /\ all_data' = IF ok THEN Append(all_data, DataOf(pages[url])) ELSE all_data
         /\ processed_urls' = ProcessedAfterAttempt(ok, processed_urls, url)
         /\ appended' = IF ok THEN [appended EXCEPT ![url] = @ + 1] ELSE appended
         /\ cpFile' = IF ~ok \/ wr = "ioerr" THEN cpFile
                      ELSE IF wr = "killed" THEN PartialFile
                      ELSE save_live(all_data', processed_urls')
         /\ sinkLog' = IF ~ok \/ wr = "killed" THEN NoSinks
                       ELSE IF wr = "ioerr" THEN SinksSkipped(gs_client, sp_client)
                       ELSE SinkOutcome(ex, gs, sp, gs_client, sp_client)
         /\ succeededIn' = IF ok /\ wr = "done"
                           THEN [succeededIn EXCEPT ![url] = IF @ = 0 THEN runNo ELSE @]
                           ELSE succeededIn
         /\ stable' = (stable /\ nav = "ok" /\ (ok => wr = "done"))
         /\ IF died
            THEN /\ queue' = <<>>
                 /\ pc' = "exited"
                 /\ exitKind' = "killed"
                 /\ attempt' = 0
                 /\ UNCHANGED exhausted
            ELSE IF raised /\ MayRetry(attempt)
            THEN /\ attempt' = attempt + 1
                 /\ UNCHANGED <<queue, pc, exhausted, exitKind>>
            ELSE /\ attempt' = 0
                 /\ exhausted' = IF raised THEN exhausted \cup {url} ELSE exhausted
                 /\ queue' = rest
                 /\ pc' = after
                 /\ UNCHANGED exitKind
    /\ UNCHANGED <<pages, runNo, gs_client, sp_client, batchIdx, all_links, cause>>
    /\ UNCHANGED <<loadSeen, diskAtStart, loaded, finalSaved, prevRunData, batchLog, finallyLog>>

\* operator cancellation (KeyboardInterrupt / CancelledError) delivered at an
\* await of discovery or extraction: not an Exception, so no handler of
\* get_founder_links, scrape_profile or run catches it; run()'s finally runs
Interrupt ==
    /\ UNCHANGED sideVars
    /\ pc \in {"discover", "extract"}
    /\ pc' = "finally"
    /\ cause' = "interrupted"
    /\ queue' = <<>>
    /\ attempt' = 0
    /\ sinkLog' = NoSinks
    /\ stable' = FALSE
    /\ UNCHANGED <<pages, cpFile, runNo, all_data, processed_urls, gs_client,
                   sp_client, batchIdx, all_links>>
    /\ UNCHANGED <<loadSeen, diskAtStart, loaded, navigated, attempts, appended,
                   exhausted, succeededIn, finalSaved, exitKind, prevRunData,
                   batchLog, finallyLog>>

\* the finally block of run(): await browser.close(), then save_checkpoint
\* (save_to_json and save_to_excel write no state kept here).
\*   close: browser.close() returns, or raises (or is itself interrupted),
\*          which leaves the finally block at once
\*   wr   : as in ScrapeProfile, for the write of save_checkpoint
Finally ==
    /\ UNCHANGED sideVars
    /\ pc = "finally"
    /\ \E close \in {"ok", "raises"}, wr \in {"done", "killed"} :
        IF close = "raises"
        THEN /\ exitKind' = cause
             /\ stable' = FALSE
             /\ finallyLog' = <<"release_failed">>
             /\ UNCHANGED <<cpFile, finalSaved>>
        ELSE IF wr = "done"
        THEN /\ cpFile' = save_checkpoint(all_data, processed_urls)
             /\ finalSaved' = TRUE
             /\ exitKind' = cause
             /\ finallyLog' = <<"release", "commit">>
             /\ UNCHANGED stable
        ELSE /\ cpFile' = PartialFile
             /\ exitKind' = "killed"
             /\ stable' = FALSE
             /\ finallyLog' = <<"release">>
             /\ UNCHANGED finalSaved
    /\ pc' = "exited"
    /\ sinkLog' = NoSinks
    /\ UNCHANGED <<pages, runNo, all_data, processed_urls, gs_client, sp_client,
                   batchIdx, all_links, queue, attempt, cause>>
    /\ UNCHANGED <<loadSeen, diskAtStart, loaded, navigated, attempts, appended,
                   exhausted, succeededIn, prevRunData, batchLog>>

\* the process is killed (SIGKILL, power loss) while it writes no file
Kill ==
    /\ UNCHANGED sideVars
    /\ pc \in {"discover", "extract", "finally"}
    /\ pc' = "exited"
    /\ exitKind' = "killed"
    /\ queue' = <<>>
    /\ attempt' = 0
    /\ sinkLog' = NoSinks
    /\ stable' = FALSE
    /\ UNCHANGED <<pages, cpFile, runNo, all_data, processed_urls, gs_client,
                   sp_client, batchIdx, all_links, cause>>
    /\ UNCHANGED <<loadSeen, diskAtStart, loaded, navigated, attempts, appended,
                   exhausted, succeededIn, finalSaved, prevRunData, batchLog,
                   finallyLog>>

Next ==
    \/ Start
    \/ DiscoverBatch
    \/ ScrapeProfile
    \/ Interrupt
    \/ Finally
    \/ Kill

Spec == Init /\ [][Next]_vars

(* ------------------------------ get_founder_links followed scroll by scroll *)
NoProfile == [u \in URLs |-> PageResult(FALSE, "", "", "")]

InitScroll ==
    /\ pages = NoProfile
    /\ cpFile = AbsentFile
    /\ InitMemory
    /\ scrollPc = "goto"
    /\ extents \in ExtentProfiles
    /\ scrollsDone = 0
    /\ ExtractIdle

\* page.goto(url, wait_until="domcontentloaded") and the sleep after it; any
\* error ends the call in the except clause, which returns []
ScrollNavigate ==
    /\ scrollPc = "goto"
    /\ \E ok \in BOOLEAN : scrollPc' = IF ok THEN "scrolling" ELSE "failed"
    /\ UNCHANGED <<extents, scrollsDone>>
    /\ UNCHANGED <<progVars, histVars, extractVars>>

\* one iteration of the scroll loop: page.mouse.wheel(0, 1200), sleep(1)
ScrollStep ==
    /\ scrollPc = "scrolling"
    /\ KeepScrolling(scrollsDone)
    /\ \E ok \in BOOLEAN :
        IF ok THEN scrollsDone' = scrollsDone + 1 /\ UNCHANGED scrollPc
        ELSE scrollPc' = "failed" /\ UNCHANGED scrollsDone
    /\ UNCHANGED extents
    /\ UNCHANGED <<progVars, histVars, extractVars>>

\* after the loop: page.evaluate collects the anchors, the links are returned
ScrollCollect ==
    /\ scrollPc = "scrolling"
    /\ ~KeepScrolling(scrollsDone)
    /\ scrollPc' = "collected"
    /\ UNCHANGED <<extents, scrollsDone>>
    /\ UNCHANGED <<progVars, histVars, extractVars>>

NextScroll ==
    \/ ScrollNavigate
    \/ ScrollStep
    \/ ScrollCollect

SpecScroll == InitScroll /\ [][NextScroll]_vars

(* ------------------- one attempt of scrape_profile on a page that loaded *)
InitExtract ==
    /\ pages = NoProfile
    /\ cpFile = AbsentFile
    /\ InitMemory
    /\ ScrollIdle
    /\ exPc = "evaluate"
    /\ exPage \in ProfilePages
    /\ exCompany \in CompanyPages
    /\ exData = NoData
    /\ exProfile = NoData
    /\ exBackfill = "none"

\* data = await page.evaluate(...); if not data: raise ValueError
ExtractEvaluate ==
    /\ exPc = "evaluate"
    /\ exData' = Evaluate(exPage)
    /\ exProfile' = exData'
    /\ exPc' = IF exData'.found THEN "backfill" ELSE "nodata"
    /\ UNCHANGED <<exPage, exCompany, exBackfill>>
    /\ UNCHANGED <<progVars, histVars, scrollVars>>

\* lines 295-298: the visit of the company page and the merge of its values
ExtractBackfill ==
    /\ exPc = "backfill"
    /\ IF NeedsBackfill(exData)
       THEN LET c == scrape_company_details(exCompany, exData.companyPage)
            IN  /\ exBackfill' = IF exCompany.st = "fails" THEN "failed" ELSE "returned"
                /\ IF c.raised
                   THEN exPc' = "error" /\ UNCHANGED exData
                   ELSE exPc' = "decide" /\ exData' = MergeBackfill(exData, c)
       ELSE /\ exBackfill' = "skipped"
            /\ exPc' = "decide"
            /\ UNCHANGED exData
    /\ UNCHANGED <<exPage, exCompany, exProfile>>
    /\ UNCHANGED <<progVars, histVars, scrollVars>>

\* lines 301-308: append and return, or raise ValueError("Insufficient data")
ExtractDecide ==
    /\ exPc = "decide"
    /\ exPc' = IF HasIdentity(exData) THEN "accepted" ELSE "insufficient"
    /\ UNCHANGED <<exPage, exCompany, exData, exProfile, exBackfill>>
    /\ UNCHANGED <<progVars, histVars, scrollVars>>

NextExtract ==
    \/ ExtractEvaluate
    \/ ExtractBackfill
    \/ ExtractDecide

SpecExtract == InitExtract /\ [][NextExtract]_vars

(* -------------------------- load_checkpoint on any file found at start-up *)
\* records a checkpoint file can hold
FileRecords == {DataOf(p) : p \in {q \in PageKinds : Accepted(q)}}

FileRecordLists ==
    UNION {[1..n -> FileRecords] : n \in 0..MaxFileRecords}

\* the files a process can find at checkpoint_file
FileInputs ==
    {AbsentFile, PartialFile, NotDictFile}
        \cup {JsonFile(d, ps) : d \in FileRecordLists, ps \in SUBSET URLs}
        \cup {BadProcessedFile(d) : d \in FileRecordLists}

InitLoad ==
    /\ pages = NoProfile
    /\ cpFile \in FileInputs
    /\ InitMemory
    /\ ScrollIdle
    /\ ExtractIdle

SpecLoad == InitLoad /\ [][Start]_vars

TypeOK ==
    /\ pc \in {"idle", "discover", "extract", "finally", "exited"}
    /\ runNo \in 0..MaxRuns
    /\ processed_urls \subseteq URLs
    /\ attempt \in 0..Retries
    /\ cpFile.st \in {"absent", "ok", "partial", "notdict", "badproc"}
    /\ Len(batchLog) <= Len(BatchSeq)
    /\ Range(finallyLog) \subseteq {"release", "release_failed", "commit"}

(* ================================================================ properties *)
\* IdentityKey of a record: the handle when present, else (name, organization)
IdentityKey(r) ==
    IF r.linkedin # "" THEN <<"handle", r.linkedin>>
    ELSE <<"pair", r.name, r.companyName>>

NoTwoShareKey(records) ==
    \A i, j \in DOMAIN records :
        IdentityKey(records[i]) = IdentityKey(records[j]) => i = j

\* the page always yields InsufficientData: loaded, but name and organization empty
AlwaysInsufficient(u) ==
    pages[u].found /\ pages[u].name = "" /\ pages[u].companyName = ""

\* the last step was a scrape_profile whose save_live wrote the checkpoint
\* and went on to the sinks
JustCommitted == sinkLog.excel \in {"ok", "failed"}

\* C1 (resume skip): a URL that is in the processed set stored in the
\* checkpoint this run loaded is never navigated to, never attempted and has
\* no record appended in this run, whatever discovery found.
C1_ResumeSkip ==
    \A u \in URLs :
        (loadSeen = "ok" /\ u \in diskAtStart)
            => (u \notin navigated /\ attempts[u] = 0 /\ appended[u] = 0)

\* C1 witness: a run that loaded a processed URL, discovered it again,
\* and drained its queue after navigating to another URL.
C1_Witness ==
    /\ exitKind = "drained"
    /\ \E u \in diskAtStart : u \in Range(all_links)
    /\ navigated # {}

\* C2 as stated: a URL that always yields InsufficientData is attempted
\* exactly maxAttempts times, is in no record, and is in the processed set.
C2_ExhaustedMarkedProcessed ==
    \A u \in exhausted :
        AlwaysInsufficient(u)
            => (attempts[u] = Retries /\ appended[u] = 0 /\ u \in processed_urls)

\* C2 amended: a URL that always yields InsufficientData and on which
\* scrape_profile gave up was attempted exactly maxAttempts times in this run,
\* has no record, and is NOT in the processed set, in memory or on disk.
C2_ExhaustedNotProcessed ==
    \A u \in exhausted :
        AlwaysInsufficient(u)
            => /\ attempts[u] = Retries
               /\ appended[u] = 0
               /\ succeededIn[u] = 0
               /\ u \notin processed_urls
               /\ u \notin cpFile.processed

\* C2 witness: a run ended after giving up on an always-insufficient URL.
C2_Witness ==
    /\ pc = "exited"
    /\ \E u \in exhausted : AlwaysInsufficient(u) /\ attempts[u] = Retries

\* C3 (atomic checkpoint write): no load ever finds a truncated or
\* unparseable checkpoint file, whenever the previous process died.
C3_AtomicCheckpointWrite == loadSeen # "corrupt"

\* C4 (checkpoint consistency): in every complete checkpoint on disk, each
\* processed URL whose extraction succeeded has exactly one record with the
\* IdentityKey of the record extracted from it.
C4_CheckpointConsistency ==
    cpFile.st = "ok" =>
        \A u \in cpFile.processed :
            succeededIn[u] # 0 =>
                Cardinality({i \in DOMAIN cpFile.data :
                    IdentityKey(cpFile.data[i]) = IdentityKey(DataOf(pages[u]))}) = 1

\* C5 (identity uniqueness): neither the records in memory nor those of any
\* complete checkpoint on disk contain two records with the same IdentityKey.
C5_IdentityUniqueness ==
    /\ NoTwoShareKey(all_data)
    /\ cpFile.st = "ok" => NoTwoShareKey(cpFile.data)

\* field-by-field merge of the spec: a non-empty existing field is kept, an
\* empty one takes the new record's value
MergeFields(old, new) ==
    [name |-> IF old.name # "" THEN old.name ELSE new.name,
     linkedin |-> IF old.linkedin # "" THEN old.linkedin ELSE new.linkedin,
     companyName |-> IF old.companyName # "" THEN old.companyName ELSE new.companyName]

C7_SinkIsolation ==
    JustCommitted =>
        /\ sinkLog.gs # "skipped"
        /\ sinkLog.sp # "skipped"
        /\ cpFile.st = "ok"

\* C8 (final flush): a run that ended by draining its queue or by an
\* interruption has written the final checkpoint, and the file holds exactly
\* the records and processed URLs the run had in memory.
C8_FinalFlush ==
    (pc = "exited" /\ exitKind \in {"drained", "interrupted"})
        => (finalSaved /\ cpFile = JsonFile(all_data, processed_urls))

\* C9 as stated: over unchanged pages and with no fault or interruption, a
\* later run attempts no URL at all and ends with the records of the run
\* before it.
C9_SecondRunAttemptsNothing ==
    (runNo >= 2 /\ stable) =>
        /\ \A u \in URLs : attempts[u] = 0
        /\ pc = "exited" => all_data = prevRunData

\* C9 amended: over unchanged pages and with no fault or interruption, a
\* later run attempts only URLs that no run extracted (their pages never
\* yield a record, so they are not in the processed set), attempts none of
\* the URLs extracted before, and ends with the records of the run before it,
\* which are also the records of its final checkpoint.
C9_SecondRunAttemptsOnlyFailed ==
    (runNo >= 2 /\ stable) =>
        /\ \A u \in URLs :
            attempts[u] > 0 => (~Accepted(pages[u]) /\ succeededIn[u] = 0)
        /\ pc = "exited" => (all_data = prevRunData /\ cpFile.data = all_data)

\* C9 witness: a fault-free second run has ended; it skipped a URL the
\* first run extracted and attempted again a URL the first run gave up on.
C9_Witness ==
    /\ runNo = 2
    /\ stable
    /\ pc = "exited"
    /\ \E u \in URLs : succeededIn[u] = 1 /\ attempts[u] = 0
    /\ \E u \in URLs : u \in exhausted

\* C10 (attempt bound): in one run no URL is attempted more than maxAttempts
\* times, and a URL is attempted in a run only if no earlier run extracted it.
C10_AttemptBound ==
    \A u \in URLs :
        /\ attempts[u] <= Retries
        /\ attempts[u] > 0 => succeededIn[u] \in {0, runNo}

\* the scroll count the spec's rule gives: stop at the first scroll after
\* which the extent equals the extent before it, else at the ceiling
StopOnStableExtent(e) ==
    IF \E k \in 1..ScrollCeiling : e[k] = e[k - 1]
    THEN CHOOSE k \in 1..ScrollCeiling :
            /\ e[k] = e[k - 1]
            /\ \A j \in 1..(k - 1) : e[j] # e[j - 1]
    ELSE ScrollCeiling

\* C11 as stated: a discovery that collects its links has scrolled until two
\* consecutive extents were equal, or to the ceiling if that came first.
C11_StopsOnStableExtent ==
    scrollPc = "collected" => scrollsDone = StopOnStableExtent(extents)

\* C11 amended: a discovery that collects its links has made exactly
\* ScrollCeiling scrolls whatever the extents were, and no discovery makes
\* more.
C11_AlwaysScrollsToCeiling ==
    /\ scrollPc = "collected" => scrollsDone = ScrollCeiling
    /\ scrollsDone <= ScrollCeiling

\* C11 witness: links were collected from a page whose extent grew once and
\* was then unchanged (the shape 100, 250, 250).
C11_Witness ==
    /\ scrollPc = "collected"
    /\ extents[0] < extents[1]
    /\ extents[1] = extents[2]

\* C12 (corrupt checkpoint handling): after a load that could not read the
\* whole checkpoint, the run starts with no records and no processed URLs.
C12_LoadAllOrNothing ==
    (pc = "discover" /\ loadSeen = "corrupt")
        => (all_data = <<>> /\ processed_urls = {})

\* URLs that a completed checkpoint write has stored as processed at some
\* time: save_live stores the URL it has just extracted
EverPersisted == {u \in URLs : succeededIn[u] # 0}

\* C13 (ProcessedSet monotonicity): a URL that was once stored as processed
\* is in the processed set of every complete checkpoint found on disk later,
\* and in the in-memory processed set of every later run.
C13_ProcessedOnlyGrows ==
    /\ cpFile.st = "ok" => EverPersisted \subseteq cpFile.processed
    /\ pc \in {"discover", "extract", "finally"} => EverPersisted \subseteq processed_urls

\* C14 (identity key definition): in a committed checkpoint, two inserted
\* records with distinct non-empty handles are both kept even when their name
\* and organization are equal, and so are two records with empty handles and
\* different (name, organization) pairs.
C14_DistinctKeysBothKept ==
    JustCommitted =>
        \A i, j \in DOMAIN all_data :
            ( \/ /\ all_data[i].linkedin # ""
                 /\ all_data[j].linkedin # ""
                 /\ all_data[i].linkedin # all_data[j].linkedin
                 /\ DedupSubset(all_data[i]) = DedupSubset(all_data[j])
              \/ /\ all_data[i].linkedin = ""
                 /\ all_data[j].linkedin = ""
                 /\ DedupSubset(all_data[i]) # DedupSubset(all_data[j]) )
                => (all_data[i] \in Range(cpFile.data) /\ all_data[j] \in Range(cpFile.data))

\* C15 (commit containment and frame): whatever the checkpoint write and the
\* sinks of save_live do, short of the death of the process, the step that
\* accepts a record appends exactly that record, adds exactly its URL to the
\* processed set, and ends the call on that URL: no retry, no give-up.
C15_CommitContained ==
    [][ ( /\ pc = "extract"
          /\ queue # <<>>
          /\ appended'[Head(queue)] > appended[Head(queue)]
          /\ exitKind' # "killed" )
        => ( /\ all_data' = Append(all_data, DataOf(pages[Head(queue)]))
             /\ processed_urls' = processed_urls \cup {Head(queue)}
             /\ attempt' = 0
             /\ exhausted' = exhausted
             /\ queue' = Tail(queue) ) ]_vars

\* C15 witness: a commit whose checkpoint write or Excel step failed, after
\* which the URL is processed, has one record and is no longer queued.
C15_Witness ==
    /\ sinkLog.excel \in {"skipped", "failed"}
    /\ \E u \in URLs :
        /\ appended[u] = 1
        /\ u \in processed_urls
        /\ u \notin Range(queue)
        /\ u \notin exhausted

\* the queue of this run has been worked to its end
QueueDrained == (pc = "finally" /\ cause = "drained") \/ exitKind = "drained"

\* C16 (per-URL failure containment): giving up on a URL never ends the run;
\* when the run leaves the queue without being interrupted, every URL of the
\* queue was either skipped/recorded as processed or attempted Retries times
\* and given up, whatever happened to the URLs before it.
C16_FailureContained ==
    /\ \A u \in exhausted : attempts[u] = Retries
    /\ QueueDrained =>
         \A u \in Range(all_links) : u \in processed_urls \/ u \in exhausted

\* C16 witness: a drained run in which one URL was given up and another URL
\* was still attempted and recorded.
C16_Witness ==
    /\ QueueDrained
    /\ \E u, v \in URLs :
        /\ u # v
        /\ u \in exhausted
        /\ appended[v] = 1

\* discovery of this run is over and extraction has not been cut short
DiscoveryDone == pc = "extract" \/ QueueDrained

\* C17 (failed batch is not fatal): a failed batch contributes no link, every
\* batch after it is still visited in order, and every URL listed by a batch
\* that succeeded is queued: by the time discovery is over it is waiting in
\* the queue, processed, or given up after its attempts.
C17_FailedBatchNotFatal ==
    /\ \A i \in DOMAIN batchLog : batchLog[i].batch = BatchSeq[i]
    /\ Range(all_links) =
         UNION {Listing[batchLog[i].batch] : i \in {j \in DOMAIN batchLog : batchLog[j].ok}}
    /\ DiscoveryDone =>
         /\ Len(batchLog) = Len(BatchSeq)
         /\ \A i \in DOMAIN batchLog :
              batchLog[i].ok =>
                \A u \in Listing[batchLog[i].batch] :
                    u \in Range(queue) \/ u \in processed_urls \/ u \in exhausted

\* C17 witness: the first batch failed, the second succeeded, and its URL is
\* the queue of the extraction phase.
C17_Witness ==
    /\ pc = "extract"
    /\ Len(batchLog) = 2
    /\ ~batchLog[1].ok
    /\ batchLog[2].ok
    /\ queue = ListOf(Listing[BatchSeq[2]])

\* C18 (success stops retrying): the attempt that yields a record appends it
\* to the store, adds the URL to the processed set, performs a commit (or the
\* process dies inside it) and leaves the URL; a URL that has a record is not
\* navigated or attempted again in that run.
C18_SuccessStopsRetrying ==
    [][ /\ ( /\ pc = "extract"
             /\ queue # <<>>
             /\ appended'[Head(queue)] > appended[Head(queue)] )
           => ( /\ Len(all_data') = Len(all_data) + 1
                /\ all_data'[Len(all_data')] = DataOf(pages[Head(queue)])
                /\ Head(queue) \in processed_urls'
                /\ (sinkLog' # NoSinks \/ exitKind' = "killed")
                /\ Head(queue) \notin Range(queue')
                /\ attempt' = 0 )
        /\ \A u \in URLs :
             (appended[u] >= 1 /\ runNo' = runNo) =>
                 (attempts'[u] = attempts[u] /\ appended'[u] = appended[u]) ]_vars

\* C18 witness: a URL recorded at its first attempt, with one attempt to
\* spare, in a run that then worked the queue to its end.
C18_Witness ==
    /\ QueueDrained
    /\ \E u \in URLs :
        /\ appended[u] = 1
        /\ attempts[u] = 1
        /\ attempts[u] < Retries
        /\ u \in processed_urls

\* C19 (commit-then-release ordering; violated): a run that leaves the queue
\* and is not killed performs its final checkpoint write first and releases
\* the browser afterwards, so the write is done whatever the release does.
C19_CommitBeforeRelease ==
    (pc = "exited" /\ exitKind \in {"drained", "interrupted"}) =>
        /\ finallyLog # <<>>
        /\ finallyLog[1] = "commit"
        /\ finalSaved

\* C20 (orchestrator phase order), the order of the phases: batches are
\* visited in the order given, and attempts are made only after every batch
\* has been visited.
C20_PhaseState ==
    /\ \A i \in DOMAIN batchLog : batchLog[i].batch = BatchSeq[i]
    /\ pc = "discover" => (Len(batchLog) = batchIdx - 1 /\ \A u \in URLs : attempts[u] = 0)
    /\ (pc = "extract" \/ \E u \in URLs : attempts[u] > 0) => Len(batchLog) = Len(BatchSeq)

\* C20, the steps: batches are visited one at a time; once extraction has
\* begun the links and the batch log are fixed and discovery is not entered
\* again; the exit is left only by starting the program anew.
C20_PhaseStep ==
    /\ (pc = "discover" /\ runNo' = runNo) =>
          \/ batchLog' = batchLog
          \/ Len(batchLog') = Len(batchLog) + 1
    /\ (pc \in {"extract", "finally", "exited"} /\ runNo' = runNo) =>
          /\ batchLog' = batchLog
          /\ all_links' = all_links
          /\ pc' # "discover"
    /\ (pc = "finally" /\ runNo' = runNo) => pc' \in {"finally", "exited"}
    /\ pc = "exited" => (pc' = "exited" \/ (pc' = "discover" /\ runNo' = runNo + 1))

\* C20, the terminal state: a run that is not killed exits after the release
\* of the browser (whatever its outcome) and with the final checkpoint written.
C20_TerminalFlushed ==
    (pc = "exited" /\ exitKind \in {"drained", "interrupted"}) =>
        /\ finallyLog # <<>>
        /\ "commit" \in Range(finallyLog)
        /\ finalSaved

\* C20 (orchestrator phase order; violated in its terminal state): discovery
\* of all batches, then extraction, then the exit with the browser released
\* and the final checkpoint written, once per run and without restart.
C20_PhaseOrder ==
    /\ [](C20_PhaseState /\ C20_TerminalFlushed)
    /\ [][C20_PhaseStep]_vars

\* the attempt on the loaded page has ended
AttemptEnded == exPc \in {"accepted", "insufficient", "nodata", "error"}

\* C21 (InsufficientData condition; violated): the attempt on a loaded page
\* fails exactly when person name and organization name are both empty after
\* the blob, the heading and the backfill were tried; so a page without a
\* blob whose heading is usable yields a record.
C21_InsufficientIffBothEmpty ==
    AttemptEnded =>
        /\ exData.found => (exPc = "accepted" <=> HasIdentity(exData))
        /\ (exPage.blob = "none" /\ exPage.h1 # "") => exPc = "accepted"

\* C22 (backfill never overwrites; violated): the company page is visited
\* only when a company URL was found and the website is empty, and the merge
\* changes no field the profile page had filled: an organization name taken
\* from the profile page is the one the record keeps.
C22_BackfillFillsOnlyEmpty ==
    /\ exBackfill \in {"failed", "returned"} => NeedsBackfill(exProfile)
    /\ exPc \in {"decide", "accepted", "insufficient"} =>
         /\ exProfile.name # "" => exData.name = exProfile.name
         /\ exProfile.website # "" => exData.website = exProfile.website
         /\ exProfile.companyName # "" => exData.companyName = exProfile.companyName

\* C25 (backfill failure is contained): when the visit of the company page
\* fails, the attempt goes on without an error, the record is the one the
\* profile page gave, and it is accepted exactly when that record has a
\* person name or an organization name.
C25_BackfillFailureContained ==
    exBackfill = "failed" =>
        /\ exPc \in {"decide", "accepted", "insufficient"}
        /\ exData = exProfile
        /\ exPc = "accepted" => HasIdentity(exProfile)
        /\ exPc = "insufficient" => ~HasIdentity(exProfile)

\* C25 witness: the company page was needed and its visit failed, and the
\* record of the profile page was accepted.
C25_Witness ==
    /\ exBackfill = "failed"
    /\ NeedsBackfill(exProfile)
    /\ exPc = "accepted"

\* C23, states: a URL given up on in this run is neither in processed_urls
\* nor in the checkpoint on disk, and once discovery is over every
\* discovered URL that was not loaded as processed is queued or attempted.
C23_FailedNotProcessed ==
    /\ \A u \in exhausted :
         /\ u \notin processed_urls
         /\ cpFile.st = "ok" => u \notin cpFile.processed
    /\ DiscoveryDone =>
         \A u \in Range(all_links) :
             u \notin loaded.processed => (u \in Range(queue) \/ attempts[u] > 0)

\* C23, steps: within a run a URL enters processed_urls only in the step
\* that appends the record extracted from it; the run that follows one in
\* which a URL was given up starts without that URL in processed_urls.
C23_MarkedWithAppend ==
    /\ runNo' = runNo =>
         \A u \in processed_urls' \ processed_urls :
             /\ pc = "extract" /\ queue # <<>> /\ u = Head(queue)
             /\ appended'[u] = appended[u] + 1
             /\ all_data' = Append(all_data, DataOf(pages[u]))
    /\ runNo' = runNo + 1 => \A u \in exhausted : u \notin processed_urls'

\* C23 (processed only on success): a URL is added to processed_urls only
\* together with the append of its record; a URL whose attempts all failed is
\* not in processed_urls and is queued again by the next run that finds it.
C23_ProcessedOnlyOnSuccess ==
    []C23_FailedNotProcessed /\ [][C23_MarkedWithAppend]_vars

\* C23 witness: the second of two fault-free runs has queued a URL whose
\* page never yields a record, which the first run therefore gave up on.
C23_Witness ==
    /\ runNo = 2
    /\ stable
    /\ pc = "extract"
    /\ queue # <<>>
    /\ ~Accepted(pages[Head(queue)])
    /\ Head(queue) \notin processed_urls
    /\ \E v \in URLs : v \in processed_urls

\* C24 (one append per success): all_data is what was loaded followed by one
\* record per URL added to processed_urls in this run; no URL has more than
\* one record appended in a run, and a URL given up on has none.
C24_OneAppendPerSuccess ==
    pc # "idle" =>
        /\ Len(all_data) =
              Len(loaded.data) + Cardinality(processed_urls \ loaded.processed)
        /\ SubSeq(all_data, 1, Len(loaded.data)) = loaded.data
        /\ loaded.processed \subseteq processed_urls
        /\ \A u \in URLs : appended[u] <= 1
        /\ \A u \in URLs : appended[u] = 1 <=> u \in processed_urls \ loaded.processed
        /\ \A u \in exhausted : appended[u] = 0

\* C24 witness: a run that loaded a record from the checkpoint appended one
\* more for the URL it processed.
C24_Witness ==
    /\ Len(loaded.data) = 1
    /\ Cardinality(loaded.processed) = 1
    /\ Len(all_data) = 2
    /\ \E u \in URLs : appended[u] = 1 /\ u \notin loaded.processed

====
